---- MODULE Spec2Model ----
(***************************************************************************)
(* The director's queue worker (python/cog/director/queue_worker.py).      *)
(*                                                                         *)
(* QueueWorker.start() and QueueWorker.handle_message() are modelled as    *)
(* one sequential process whose position is pc.  Every action is the code  *)
(* between two points where the worker reads or writes state that another  *)
(* context can touch: the two threading.Event flags, the duplex pipe, the  *)
(* redis stream and the model container's HTTP surface.  The other         *)
(* contexts (termination signal, webhook receiver, sibling web server,     *)
(* cancel key in redis) are environment actions.                           *)
(*                                                                         *)
(* prediction_request_pipe is ONE END of a duplex                          *)
(* multiprocessing.connection.Connection: send() appends to the direction  *)
(* the sibling reads (pipe_out); poll()/recv() look at the direction the   *)
(* sibling writes (pipe_in).                                               *)
(***************************************************************************)
EXTENDS Integers, Sequences, FiniteSets, TLC

\* ---- bounds ------------------------------------------------------------
MaxJobs == 2          \* messages the redis stream can deliver
MaxCancel == 2        \* cancel calls per job before the poll loop is cut off
MaxPipeIn == 1        \* unread messages the sibling may have sent to the worker
MaxLateGets == 2      \* width of the history counter lateGets
MaxFairJobs == 1      \* messages the stream delivers under FairSpec
MaxOutput == 3        \* largest value a PredictionOutput payload carries

\* ---- program constants ---------------------------------------------------
WEBHOOK == "http://localhost:4900/webhook"

Jobs == 1..MaxJobs
Webhooks == {"http://caller/hook", WEBHOOK}
NoMessage == [id |-> 0, webhook |-> "none"]

\* The n-th message of the redis stream once json.loads has parsed it: odd
\* messages name a caller's webhook, even ones already name the worker's.
StreamMessage(n) ==
    [id |-> n, webhook |-> IF n % 2 = 1 THEN "http://caller/hook" ELSE WEBHOOK]
HealthReplies == {"error", "not200", "unhealthy", "setup_pending", "ready"}
DispatchedPCs == {"wait", "cancel", "shut"}

VARIABLES
    pc,                \* position of the worker in start()/handle_message()
    shutdown_event,    \* threading.Event shutdown_event
    prediction_event,  \* threading.Event prediction_event
    next,              \* index of the next message redis_consumer.get() yields
    message_id,        \* local message_id of handle_message (0: none)
    message,           \* local message of handle_message
    health,            \* what the last GET /health-check of start() reported
    caught,            \* start() caught an exception of handle_message (line 102)
    pipe_in,           \* messages sent by the sibling, unread by the worker
    pipe_out,          \* descriptors sent by the worker, unread by the sibling
    running,           \* predictions the model container is running
    posted,            \* bodies POST /predictions has accepted, in order
    cancel_keys,       \* ids whose should_cancel() currently answers true
    cancelCalls,       \* POST /predictions/{id}/cancel calls issued, per id
    acked,             \* message ids passed to redis_consumer.ack, in order
    \* history variables
    eventBy,           \* predictions whose completion set prediction_event since its last clear
    observed,          \* waits that returned true: [handle, by, shut]
    abandoned,         \* handles whose wait ended at the shutdown check
    preShut,           \* handles DISPATCHED, not complete, when shutdown was set
    failedCancel,      \* handles for which a cancel call failed
    lateCancelFail,    \* handles whose cancel call failed after completion
    lateGets,          \* redis_consumer.get() calls made with shutdown_event set
    delivered,         \* messages redis_consumer.get() has yielded, as yielded
    written,           \* ids of the descriptors send() has written, in order
    \* the Cross-Process Channel carrying (correlationId, event) messages
    ch_pc,             \* how far the round trip of ch_item has got
    ch_item,           \* the message both ends send
    ch_to_blocking,    \* bytes written by the suspension-based end, unread
    ch_to_async,       \* bytes written by the blocking end, unread
    ch_buf,            \* bytes the suspension-based reader has taken so far
    ch_got             \* what recv() returned at each end

worker == <<pc, message_id, message, health, caught>>
flags == <<shutdown_event, prediction_event>>
redis == <<next, cancel_keys, acked>>
pipe == <<pipe_in, pipe_out>>
engine == <<running, posted, cancelCalls>>
history == <<eventBy, observed, abandoned, preShut, failedCancel, lateCancelFail, lateGets,
             delivered, written>>
chan == <<ch_pc, ch_item, ch_to_blocking, ch_to_async, ch_buf, ch_got>>
vars == <<worker, flags, redis, pipe, engine, history, chan>>

Range(s) == {s[i] : i \in 1..Len(s)}

Count(x, s) == Cardinality({i \in 1..Len(s) : s[i] = x})

\* ---- QueueWorker.__init__ ----------------------------------------------
WorkerInit ==
    /\ pc = "setup"
    /\ shutdown_event = FALSE
    /\ prediction_event = FALSE
    /\ next = 1
    /\ message_id = 0
    /\ message = NoMessage
    /\ health = "none"
    /\ caught = FALSE
    /\ pipe_in = 0
    /\ pipe_out = <<>>
    /\ running = {}
    /\ posted = <<>>
    /\ cancel_keys = {}
    /\ cancelCalls = [j \in Jobs |-> 0]
    /\ acked = <<>>
    /\ eventBy = {}
    /\ observed = {}
    /\ abandoned = {}
    /\ preShut = {}
    /\ failedCancel = {}
    /\ lateCancelFail = {}
    /\ lateGets = 0
    /\ delivered = <<>>
    /\ written = <<>>

\* ---- the Cross-Process Channel --------------------------------------------
\* A message is a (correlationId, event) pair; an event is a tagged union.
CorrelationIds == <<"asdf", "qwer", "zxcv">>
EventTags == <<"PredictionOutput", "Log", "Done">>
LogTexts == <<"starting", "finished">>

Events ==
    {[tag |-> "PredictionOutput", payload |-> [x |-> n]] : n \in 1..MaxOutput}
        \cup {[tag |-> "Log", message |-> LogTexts[i]] : i \in 1..Len(LogTexts)}
        \cup {[tag |-> "Done"]}

Items == {<<CorrelationIds[i], e>> : i \in 1..Len(CorrelationIds), e \in Events}
NoItem == <<"", [tag |-> "none"]>>

Index(seq, x) == CHOOSE i \in 1..Len(seq) : seq[i] = x

\* The one encoding both call conventions share: correlation id, tag, fields.
Pickle(item) ==
    <<Index(CorrelationIds, item[1]), Index(EventTags, item[2].tag)>>
        \o (CASE item[2].tag = "PredictionOutput" -> <<item[2].payload.x>>
              [] item[2].tag = "Log" -> <<Index(LogTexts, item[2].message)>>
              [] OTHER -> <<>>)

Unpickle(bytes) ==
    <<CorrelationIds[bytes[1]],
      CASE EventTags[bytes[2]] = "PredictionOutput" ->
                [tag |-> "PredictionOutput", payload |-> [x |-> bytes[3]]]
        [] EventTags[bytes[2]] = "Log" ->
                [tag |-> "Log", message |-> LogTexts[bytes[3]]]
        [] OTHER -> [tag |-> EventTags[bytes[2]]]>>

\* The framing of the byte transport: a length header, then the payload.
Frame(bytes) == <<Len(bytes)>> \o bytes
HasFrame(wire) == Len(wire) >= 1 /\ Len(wire) >= wire[1] + 1
FirstFrame(wire) == SubSeq(wire, 2, wire[1] + 1)
AfterFrame(wire) == SubSeq(wire, wire[1] + 2, Len(wire))

ChanIdle ==
    /\ ch_to_blocking = <<>>
    /\ ch_to_async = <<>>
    /\ ch_buf = <<>>
    /\ ch_got = [blocking |-> NoItem, async |-> NoItem]

\* The worker's specification leaves the channel of C17 alone.
Init == WorkerInit /\ ChanIdle /\ ch_pc = "idle" /\ ch_item = NoItem

director == <<worker, flags, redis, pipe, engine, history>>

\* test_async_connection_rt: c1, c2 = mp.Pipe(); ac = AsyncConnection.from_mp(c1)
ChanInit == WorkerInit /\ ChanIdle /\ ch_pc = "start" /\ ch_item \in Items

\* AsyncSend that encodes the event on its own and loses tag and fields.
AsyncSendReencoded ==
    /\ ch_pc = "start"
    /\ ch_to_blocking' = ch_to_blocking \o
          Frame(<<Index(CorrelationIds, ch_item[1]), Index(EventTags, "Done")>>)
    /\ ch_pc' = "a_sent"
    /\ UNCHANGED <<director, ch_item, ch_to_async, ch_buf, ch_got>>

\* ac.send(item): the suspension-based end hands the framed bytes over.
AsyncSend ==
    /\ ch_pc = "start"
    /\ ch_to_blocking' = ch_to_blocking \o Frame(Pickle(ch_item))
    /\ ch_pc' = "a_sent"
    /\ UNCHANGED <<director, ch_item, ch_to_async, ch_buf, ch_got>>

\* c2.recv(): the blocking end reads one whole frame and decodes it.
BlockingRecv ==
    /\ ch_pc = "a_sent"
    /\ HasFrame(ch_to_blocking)
    /\ ch_got' = [ch_got EXCEPT !.blocking = Unpickle(FirstFrame(ch_to_blocking))]
    /\ ch_to_blocking' = AfterFrame(ch_to_blocking)
    /\ ch_pc' = "b_got"
    /\ UNCHANGED <<director, ch_item, ch_to_async, ch_buf>>

\* c2.send(item): the blocking end writes the framed bytes.
BlockingSend ==
    /\ ch_pc = "b_got"
    /\ ch_to_async' = ch_to_async \o Frame(Pickle(ch_item))
    /\ ch_pc' = "b_sent"
    /\ UNCHANGED <<director, ch_item, ch_to_blocking, ch_buf, ch_got>>

\* The scheduler reports the descriptor readable: the suspended reader takes
\* the bytes that have arrived, any number of them.
AsyncFill ==
    /\ ch_pc = "b_sent"
    /\ \E k \in 1..Len(ch_to_async) :
          /\ ch_buf' = ch_buf \o SubSeq(ch_to_async, 1, k)
          /\ ch_to_async' = SubSeq(ch_to_async, k + 1, Len(ch_to_async))
    /\ UNCHANGED <<director, ch_pc, ch_item, ch_to_blocking, ch_got>>

\* await ac.recv(): resumes once a whole frame is there and decodes it.
AsyncRecv ==
    /\ ch_pc = "b_sent"
    /\ HasFrame(ch_buf)
    /\ ch_got' = [ch_got EXCEPT !.async = Unpickle(FirstFrame(ch_buf))]
    /\ ch_buf' = AfterFrame(ch_buf)
    /\ ch_pc' = "a_got"
    /\ UNCHANGED <<director, ch_item, ch_to_blocking, ch_to_async>>

ChanNext ==
    \/ AsyncSend
    \/ BlockingRecv
    \/ BlockingSend
    \/ AsyncFill
    \/ AsyncRecv

ChanSpec == ChanInit /\ [][ChanNext]_vars

\* ---- QueueWorker.start ---------------------------------------------------
\* SetupPoll that looks at body["status"] only, not at body["setup"].
SetupPollHealthyOnly ==
    /\ pc = "setup"
    /\ IF shutdown_event
         THEN pc' = "loop" /\ health' = health
         ELSE \E reply \in HealthReplies :
                /\ health' = reply
                /\ pc' = IF reply \in {"ready", "setup_pending"} THEN "loop" ELSE "setup"
    /\ UNCHANGED <<message_id, message, flags, redis, pipe, engine, history, caught, chan>>

\* One iteration of the setup loop: the loop test, the health check and the
\* sleep.  Only a 200 reply reporting healthy + setup succeeded breaks out.
SetupPoll ==
    /\ pc = "setup"
    /\ IF shutdown_event
         THEN pc' = "loop" /\ health' = health
         ELSE \E reply \in HealthReplies :
                /\ health' = reply
                /\ pc' = IF reply = "ready" THEN "loop" ELSE "setup"
    /\ UNCHANGED <<message_id, message, flags, redis, pipe, engine, history, caught, chan>>

\* LoopCheck with the test written as `while True`.
LoopCheckForever ==
    /\ pc = "loop"
    /\ pc' = "get"
    /\ message_id' = 0
    /\ message' = NoMessage
    /\ caught' = FALSE
    /\ UNCHANGED <<flags, redis, pipe, engine, history, health, chan>>

\* The test of the main loop: while not self.shutdown_event.is_set()
LoopCheck ==
    /\ pc = "loop"
    /\ pc' = IF shutdown_event THEN "done" ELSE "get"
    /\ message_id' = 0
    /\ message' = NoMessage
    /\ caught' = FALSE
    /\ UNCHANGED <<flags, redis, pipe, engine, history, health, chan>>

\* ---- QueueWorker.handle_message -------------------------------------------
NoteGet == IF shutdown_event /\ lateGets < MaxLateGets THEN lateGets + 1 ELSE lateGets

\* GetEmpty with prediction_event.clear() moved above the get().
GetEmptyClears ==
    /\ pc = "get"
    /\ pc' = "loop"
    /\ lateGets' = NoteGet
    /\ prediction_event' = FALSE
    /\ eventBy' = {}
    /\ UNCHANGED <<message_id, message, shutdown_event, redis, pipe, engine,
                   observed, abandoned, preShut, failedCancel, lateCancelFail,
                   delivered, health, caught, written, chan>>

\* redis_consumer.get() raises EmptyRedisStream: sleep and return.
GetEmpty ==
    /\ pc = "get"
    /\ pc' = "loop"
    /\ lateGets' = NoteGet
    /\ UNCHANGED <<message_id, message, flags, redis, pipe, engine, eventBy,
                   observed, abandoned, preShut, failedCancel, lateCancelFail,
                   delivered, health, caught, written, chan>>

\* GetError with no try/except around handle_message(): start() is left.
GetErrorUncaught ==
    /\ pc = "get"
    /\ pc' = "done"
    /\ lateGets' = NoteGet
    /\ caught' = TRUE
    /\ UNCHANGED <<message_id, message, flags, redis, pipe, engine, eventBy,
                   observed, abandoned, preShut, failedCancel, lateCancelFail,
                   delivered, health, written, chan>>

\* redis_consumer.get() raises anything else: caught by start().
GetError ==
    /\ pc = "get"
    /\ pc' = "loop"
    /\ lateGets' = NoteGet
    /\ caught' = TRUE
    /\ UNCHANGED <<message_id, message, flags, redis, pipe, engine, eventBy,
                   observed, abandoned, preShut, failedCancel, lateCancelFail,
                   delivered, health, written, chan>>

\* get() yields a message that json.loads or message["id"] rejects.
GetPoison ==
    /\ pc = "get"
    /\ next <= MaxJobs
    /\ next' = next + 1
    /\ pc' = "loop"
    /\ lateGets' = NoteGet
    /\ caught' = TRUE
    /\ UNCHANGED <<message_id, message, flags, cancel_keys, acked, pipe,
                   engine, eventBy, observed, abandoned, preShut, failedCancel,
                   lateCancelFail,
                   delivered, health, written, chan>>

\* get() yields a well-formed message; json.loads, checker(), message["id"].
GetMessage ==
    /\ pc = "get"
    /\ next <= MaxJobs
    /\ message_id' = next
    /\ message' = StreamMessage(next)
    /\ next' = next + 1
    /\ pc' = "drain"
    /\ lateGets' = NoteGet
    /\ delivered' = Append(delivered, message')
    /\ UNCHANGED <<flags, cancel_keys, acked, pipe, engine, eventBy,
                   observed, abandoned, preShut, failedCancel, lateCancelFail, health, caught, written, chan>>

\* while self.prediction_request_pipe.poll(): self.prediction_request_pipe.recv()
Drain ==
    /\ pc = "drain"
    /\ IF pipe_in > 0
         THEN pipe_in' = pipe_in - 1 /\ pc' = "drain"
         ELSE pipe_in' = pipe_in /\ pc' = "send"
    /\ UNCHANGED <<message_id, message, flags, redis, pipe_out, engine, history, health, caught, chan>>

\* Send with the webhook override moved above the send.
SendOverwritten ==
    /\ pc = "send"
    /\ pipe_out' = Append(pipe_out, [message EXCEPT !.webhook = WEBHOOK])
    /\ pc' = "clear"
    /\ written' = Append(written, message.id)
    /\ UNCHANGED <<message_id, message, flags, redis, pipe_in, engine, eventBy, observed,
                   abandoned, preShut, failedCancel, lateCancelFail, lateGets,
                   delivered, health, caught, chan>>

\* self.prediction_request_pipe.send(message): pickled as it is at this line.
Send ==
    /\ pc = "send"
    /\ pipe_out' = Append(pipe_out, message)
    /\ pc' = "clear"
    /\ written' = Append(written, message.id)
    /\ UNCHANGED <<message_id, message, flags, redis, pipe_in, engine, eventBy, observed,
                   abandoned, preShut, failedCancel, lateCancelFail, lateGets,
                   delivered, health, caught, chan>>

\* Clear with the call to prediction_event.clear() left out.
ClearSkipped ==
    /\ pc = "clear"
    /\ pc' = "post"
    /\ UNCHANGED <<message_id, message, flags, redis, pipe, engine, history,
                   health, caught, chan>>

\* self.prediction_event.clear()
Clear ==
    /\ pc = "clear"
    /\ prediction_event' = FALSE
    /\ eventBy' = {}
    /\ pc' = "post"
    /\ UNCHANGED <<message_id, message, shutdown_event, redis, pipe, engine,
                   observed, abandoned, preShut, failedCancel, lateCancelFail,
                   lateGets,
                   delivered, health, caught, written, chan>>

\* message["webhook"] = ...; POST /predictions answers 2xx.
PostOk ==
    /\ pc = "post"
    /\ message' = [message EXCEPT !.webhook = WEBHOOK]
    /\ posted' = Append(posted, message')
    /\ running' = running \cup {message.id}
    /\ pc' = "wait"
    /\ UNCHANGED <<message_id, flags, redis, pipe, cancelCalls, history, health, caught, chan>>

\* PostFail without resp.raise_for_status(): the failure goes unnoticed.
PostFailIgnored ==
    /\ pc = "post"
    /\ message' = [message EXCEPT !.webhook = WEBHOOK]
    /\ pc' = "wait"
    /\ UNCHANGED <<message_id, flags, redis, pipe, engine, history, health, caught, chan>>

\* POST /predictions fails: raise_for_status() or a network error raises.
PostFail ==
    /\ pc = "post"
    /\ message' = [message EXCEPT !.webhook = WEBHOOK]
    /\ pc' = "loop"
    /\ caught' = TRUE
    /\ UNCHANGED <<message_id, flags, redis, pipe, engine, history, health, chan>>

\* Wait with the shutdown test moved above the wait on prediction_event.
WaitShutdownFirst ==
    /\ pc = "wait"
    /\ IF shutdown_event
         THEN /\ pc' = "loop"
              /\ observed' = observed
              /\ abandoned' = abandoned \cup {message_id}
         ELSE /\ abandoned' = abandoned
              /\ IF prediction_event
                   THEN /\ pc' = "ack"
                        /\ observed' = observed \cup
                              {[handle |-> message_id, by |-> eventBy,
                                shut |-> shutdown_event]}
                   ELSE /\ pc' = "cancel"
                        /\ observed' = observed
    /\ UNCHANGED <<message_id, message, flags, redis, pipe, engine, eventBy,
                   preShut, failedCancel, lateCancelFail, lateGets,
                   delivered, health, caught, written, chan>>

\* Wait that leaves the loop whatever wait() returned.
WaitIgnoresResult ==
    /\ pc = "wait"
    /\ pc' = "ack"
    /\ observed' = IF prediction_event
                     THEN observed \cup {[handle |-> message_id, by |-> eventBy,
                                          shut |-> shutdown_event]}
                     ELSE observed
    /\ UNCHANGED <<message_id, message, flags, redis, pipe, engine, eventBy,
                   abandoned, preShut, failedCancel, lateCancelFail, lateGets,
                   delivered, health, caught, written, chan>>

\* if self.prediction_event.wait(POLL_INTERVAL): break
Wait ==
    /\ pc = "wait"
    /\ IF prediction_event
         THEN /\ pc' = "ack"
              /\ observed' = observed \cup
                    {[handle |-> message_id, by |-> eventBy, shut |-> shutdown_event]}
         ELSE /\ pc' = "cancel"
              /\ observed' = observed
    /\ UNCHANGED <<message_id, message, flags, redis, pipe, engine, eventBy,
                   abandoned, preShut, failedCancel, lateCancelFail, lateGets,
                   delivered, health, caught, written, chan>>

\* CheckCancel that remembers it has already called cancel for this id.
CheckCancelOnce ==
    /\ pc = "cancel"
    /\ IF message.id \in cancel_keys /\ cancelCalls[message.id] = 0
         THEN /\ cancelCalls' = [cancelCalls EXCEPT ![message.id] = @ + 1]
              /\ \E ok \in BOOLEAN :
                    IF ok
                      THEN /\ pc' = "shut"
                           /\ UNCHANGED <<failedCancel, lateCancelFail, caught>>
                      ELSE /\ pc' = "loop"
                           /\ caught' = TRUE
                           /\ failedCancel' = failedCancel \cup {message_id}
                           /\ lateCancelFail' =
                                IF message.id \in eventBy
                                  THEN lateCancelFail \cup {message_id}
                                  ELSE lateCancelFail
         ELSE /\ pc' = "shut"
              /\ UNCHANGED <<cancelCalls, failedCancel, lateCancelFail, caught>>
    /\ UNCHANGED <<message_id, message, flags, redis, pipe, running, posted,
                   eventBy, observed, abandoned, preShut, lateGets,
                   delivered, health, written, chan>>

\* if should_cancel(): POST /predictions/{id}/cancel; raise_for_status()
CheckCancel ==
    /\ pc = "cancel"
    /\ IF message.id \in cancel_keys
         THEN /\ \/ cancelCalls[message.id] < MaxCancel
                 \/ shutdown_event
                 \/ prediction_event
              /\ cancelCalls' = [cancelCalls EXCEPT ![message.id] = @ + 1]
              /\ \E ok \in BOOLEAN :
                    IF ok
                      THEN /\ pc' = "shut"
                           /\ UNCHANGED <<failedCancel, lateCancelFail, caught>>
                      ELSE /\ pc' = "loop"
                           /\ caught' = TRUE
                           /\ failedCancel' = failedCancel \cup {message_id}
                           /\ lateCancelFail' =
                                IF message.id \in eventBy
                                  THEN lateCancelFail \cup {message_id}
                                  ELSE lateCancelFail
         ELSE /\ pc' = "shut"
              /\ UNCHANGED <<cancelCalls, failedCancel, lateCancelFail, caught>>
    /\ UNCHANGED <<message_id, message, flags, redis, pipe, running, posted,
                   eventBy, observed, abandoned, preShut, lateGets,
                   delivered, health, written, chan>>

\* ShutdownCheck with `break` in place of `return`.
ShutdownCheckBreak ==
    /\ pc = "shut"
    /\ IF shutdown_event
         THEN pc' = "ack" /\ abandoned' = abandoned \cup {message_id}
         ELSE pc' = "wait" /\ abandoned' = abandoned
    /\ UNCHANGED <<message_id, message, flags, redis, pipe, engine, eventBy,
                   observed, preShut, failedCancel, lateCancelFail, lateGets,
                   delivered, health, caught, written, chan>>

\* ShutdownCheck with the test of shutdown_event left out of the poll loop.
ShutdownCheckNever ==
    /\ pc = "shut"
    /\ pc' = "wait"
    /\ UNCHANGED <<message_id, message, flags, redis, pipe, engine, history,
                   health, caught, chan>>

\* if self.shutdown_event.is_set(): return
ShutdownCheck ==
    /\ pc = "shut"
    /\ IF shutdown_event
         THEN pc' = "loop" /\ abandoned' = abandoned \cup {message_id}
         ELSE pc' = "wait" /\ abandoned' = abandoned
    /\ UNCHANGED <<message_id, message, flags, redis, pipe, engine, eventBy,
                   observed, preShut, failedCancel, lateCancelFail, lateGets,
                   delivered, health, caught, written, chan>>

\* Ack that acknowledges again what it has just acknowledged.
AckTwice ==
    /\ pc = "ack"
    /\ acked' = Append(Append(acked, message_id), message_id)
    /\ pc' = "loop"
    /\ UNCHANGED <<message_id, message, flags, next, cancel_keys, pipe,
                   engine, history, health, caught, chan>>

\* self.redis_consumer.ack(message_id)
Ack ==
    /\ pc = "ack"
    /\ acked' = Append(acked, message_id)
    /\ pc' = "loop"
    /\ UNCHANGED <<message_id, message, flags, next, cancel_keys, pipe,
                   engine, history, health, caught, chan>>

\* ---- the other contexts ----------------------------------------------------
\* The termination trigger sets shutdown_event; it is never cleared.
Shutdown ==
    /\ ~shutdown_event
    /\ shutdown_event' = TRUE
    /\ preShut' = IF pc \in DispatchedPCs /\ message.id \notin eventBy
                    THEN preShut \cup {message_id}
                    ELSE preShut
    /\ UNCHANGED <<worker, prediction_event, redis, pipe, engine, eventBy,
                   observed, abandoned, failedCancel, lateCancelFail, lateGets,
                   delivered, written, chan>>

\* The container finishes prediction j; its webhook sets prediction_event.
Complete(j) ==
    /\ j \in running
    /\ running' = running \ {j}
    /\ prediction_event' = TRUE
    /\ eventBy' = eventBy \cup {j}
    /\ UNCHANGED <<worker, shutdown_event, redis, pipe, posted, cancelCalls,
                   observed, abandoned, preShut, failedCancel, lateCancelFail,
                   lateGets,
                   delivered, written, chan>>

\* Somebody sets the cancel key of prediction j in redis.
CancelRequest(j) ==
    /\ j \notin cancel_keys
    /\ cancel_keys' = cancel_keys \cup {j}
    /\ UNCHANGED <<worker, flags, next, acked, pipe, engine, history, chan>>

\* The sibling reads the oldest descriptor from its end of the pipe.
SiblingRecv ==
    /\ pipe_out # <<>>
    /\ pipe_out' = Tail(pipe_out)
    /\ UNCHANGED <<worker, flags, redis, pipe_in, engine, history, chan>>

\* The sibling writes to its end of the pipe.  The worker looks at that
\* direction in the drain loop only, so a write made at any other moment is
\* represented by the same write made just before or during the drain.
SiblingSend ==
    /\ pipe_in < MaxPipeIn
    /\ pc \in {"get", "drain"}
    /\ pipe_in' = pipe_in + 1
    /\ UNCHANGED <<worker, flags, redis, pipe_out, engine, history, chan>>

Next ==
    \/ SetupPoll
    \/ LoopCheck
    \/ GetEmpty
    \/ GetError
    \/ GetPoison
    \/ GetMessage
    \/ Drain
    \/ Send
    \/ Clear
    \/ PostOk
    \/ PostFail
    \/ Wait
    \/ CheckCancel
    \/ ShutdownCheck
    \/ Ack
    \/ Shutdown
    \/ \E j \in Jobs : Complete(j)
    \/ \E j \in Jobs : CancelRequest(j)
    \/ SiblingRecv
    \/ SiblingSend

Spec == Init /\ [][Next]_vars

\* The steps of the worker's own thread.
WorkerNext ==
    \/ SetupPoll
    \/ LoopCheck
    \/ GetEmpty
    \/ GetError
    \/ GetPoison
    \/ GetMessage
    \/ Drain
    \/ Send
    \/ Clear
    \/ PostOk
    \/ PostFail
    \/ Wait
    \/ CheckCancel
    \/ ShutdownCheck
    \/ Ack

\* The same steps over a stream of at most MaxFairJobs messages.
FairJobs == Jobs \cap (1..MaxFairJobs)

FairNext ==
    \/ SetupPoll
    \/ LoopCheck
    \/ GetEmpty
    \/ GetError
    \/ (next \in FairJobs /\ GetPoison)
    \/ (next \in FairJobs /\ GetMessage)
    \/ Drain
    \/ Send
    \/ Clear
    \/ PostOk
    \/ PostFail
    \/ Wait
    \/ CheckCancel
    \/ ShutdownCheck
    \/ Ack
    \/ Shutdown
    \/ \E j \in FairJobs : Complete(j)
    \/ \E j \in FairJobs : CancelRequest(j)
    \/ SiblingRecv
    \/ SiblingSend

\* The worker's thread keeps running: every call it makes returns (get() and
\* wait() time out, the HTTP calls have timeouts), and the sibling does not
\* refill the pipe forever faster than the drain loop empties it: a worker in
\* the drain loop finds the pipe empty again and again, and then gets out.
FairSpec ==
    /\ Init
    /\ [][FairNext]_vars
    /\ WF_vars(WorkerNext)
    /\ SF_vars(Drain /\ pc' = "send")
    /\ []<>(pc = "drain" => pipe_in = 0)

TypeOK ==
    /\ pc \in {"setup", "loop", "get", "drain", "send", "clear", "post", "wait",
               "cancel", "shut", "ack", "done"}
    /\ shutdown_event \in BOOLEAN
    /\ prediction_event \in BOOLEAN
    /\ next \in 1..(MaxJobs + 1)
    /\ message_id \in 0..MaxJobs
    /\ pipe_in \in 0..MaxPipeIn
    /\ Len(pipe_out) <= MaxJobs
    /\ running \subseteq Jobs
    /\ cancel_keys \subseteq Jobs
    /\ Len(acked) <= MaxJobs
    /\ lateGets \in 0..MaxLateGets
    /\ health \in HealthReplies \cup {"none"}
    /\ caught \in BOOLEAN
    /\ Len(written) <= MaxJobs
    /\ message.webhook \in Webhooks \cup {"none"}

\* ---- properties -------------------------------------------------------------
Acked == Range(acked)

ObservedHandles == {o.handle : o \in observed}

\* Handles of the jobs POST /predictions accepted that were neither
\* acknowledged nor abandoned at the shutdown check.
InFlight == {posted[i].id : i \in 1..Len(posted)} \ (Acked \cup abandoned)

\* C1 (as stated): ack(handle) is called iff the wait returned true before
\* shutdown_event was set: every acknowledged handle was observed complete at a
\* moment when shutdown_event was still clear, no handle whose wait ended at
\* the shutdown check is acknowledged, and every handle so observed is
\* acknowledged (or is the one about to be).
C1_AckOnlyBeforeShutdown ==
    /\ \A h \in Acked : \E o \in observed : o.handle = h /\ ~o.shut
    /\ Acked \cap abandoned = {}
    /\ \A o \in observed :
          ~o.shut => o.handle \in Acked \/ (pc = "ack" /\ message_id = o.handle)

\* C1 (amended): ack(handle) is called iff prediction_event.wait() returned
\* true during that job's DISPATCHED wait, whether or not shutdown_event was
\* already set at that moment; a handle whose wait ended at the shutdown check
\* is never acknowledged.
C1_AckIffWaitReturnedTrue ==
    /\ \A h \in Acked : h \in ObservedHandles
    /\ Acked \cap abandoned = {}
    /\ \A h \in ObservedHandles : h \in Acked \/ (pc = "ack" /\ message_id = h)

\* A job was acknowledged although shutdown_event was set when its completion
\* was observed.
C1_Witness == \E o \in observed : o.shut /\ o.handle \in Acked

\* C2: after POST /predictions accepted job J, no other job is submitted
\* until J is acknowledged or abandoned at the shutdown check: at most one
\* accepted job is neither acknowledged nor abandoned.
C2_AtMostOneInFlight == Cardinality(InFlight) <= 1

\* C3: whenever a handle is acknowledged, the prediction_event that ended its
\* wait was set by the completion of that same job.
C3_AckAfterOwnCompletion ==
    \A o \in observed : o.handle \in Acked => o.handle \in o.by

\* C4 (as stated): once shutdown_event is set, redis_consumer.get() is never
\* called again.
C4_NoGetAfterShutdown == lateGets = 0

\* C4 (amended): once shutdown_event is set, redis_consumer.get() is called at
\* most once more (the call whose loop test ran before the event was set), and
\* never after the worker has left the loop.
C4_AtMostOneGetAfterShutdown ==
    /\ lateGets <= 1
    /\ pc = "get" /\ shutdown_event => lateGets = 0
    /\ pc = "done" => shutdown_event

\* get() has been called with shutdown_event set and yielded a message.
C4_Witness == lateGets = 1 /\ shutdown_event /\ pc = "drain"

\* C5 (as stated): a job that was DISPATCHED with no completion of its own
\* recorded when shutdown_event was set is never acknowledged.
C5_ShutdownBeforeCompleteNeverAcked == preShut \cap Acked = {}

\* C5 (amended): a job whose shutdown check found shutdown_event set is never
\* acknowledged, whatever happens to prediction_event afterwards, and from then
\* on the worker is at the loop test or has left the loop.
C5_AbandonedNeverAcked ==
    \A h \in abandoned :
        /\ h \notin Acked
        /\ shutdown_event
        /\ pc \in {"loop", "done"}

\* A job was abandoned at the shutdown check, completed afterwards, and the
\* worker has left the loop.
C5_Witness ==
    \E h \in abandoned : h \in eventBy /\ prediction_event /\ pc = "done"

\* C6: the sibling end of the pipe never holds more than one unread job
\* descriptor.
C6_AtMostOnePending == Len(pipe_out) <= 1

\* C7 (as stated): every descriptor written to the pipe carries the worker's
\* callback address in its webhook field.
C7_ChannelCarriesOverride ==
    \A i \in 1..Len(pipe_out) : pipe_out[i].webhook = WEBHOOK

\* C7 (amended): every descriptor written to the pipe is the message as it was
\* dequeued, webhook field untouched; only the body posted to the model
\* container is that message with the webhook field overwritten.
C7_ChannelCarriesOriginal ==
    /\ \A i \in 1..Len(pipe_out) : pipe_out[i] \in Range(delivered)
    /\ \A i \in 1..Len(posted) :
          \E d \in Range(delivered) : posted[i] = [d EXCEPT !.webhook = WEBHOOK]

\* The pipe holds a descriptor with the caller's webhook while the body posted
\* for the same id carries the worker's callback address.
C7_Witness ==
    \E i \in 1..Len(pipe_out) : \E k \in 1..Len(posted) :
        /\ pipe_out[i].id = posted[k].id
        /\ pipe_out[i].webhook # WEBHOOK
        /\ posted[k].webhook = WEBHOOK

\* C8 (as stated): at most one cancel call is ever issued for a job id.
C8_ExactlyOneCancel == \A j \in Jobs : cancelCalls[j] <= 1

\* C8 (amended): every poll cycle whose wait timed out while should_cancel()
\* answers true issues one more cancel call for the current id, however many
\* were issued before; cancel calls are issued nowhere else.
C8_CancelEveryPoll ==
    [][/\ (pc = "cancel" /\ pc' # "cancel" /\ message.id \in cancel_keys)
            => cancelCalls' = [cancelCalls EXCEPT ![message.id] = @ + 1]
       /\ cancelCalls' # cancelCalls
            => pc = "cancel" /\ message.id \in cancel_keys]_vars

\* Two cancel calls were issued for the same id.
C8_Witness == \E j \in Jobs : cancelCalls[j] >= 2

\* C9: a job whose cancel call failed is still the job the worker is
\* supervising, until it is acknowledged or abandoned at the shutdown check.
C9_FailedCancelKeepsState ==
    \A h \in failedCancel :
        \/ h \in Acked \cup abandoned
        \/ message_id = h /\ pc \in DispatchedPCs \cup {"ack"}

\* C10: when the worker has left the loop, every job whose cancel call failed
\* after the job had completed has been acknowledged exactly once.
C10_LateCancelStillAcked ==
    pc = "done" => \A h \in lateCancelFail : Count(h, acked) = 1

DeliveredIds == {delivered[i].id : i \in 1..Len(delivered)}

PostedIds == {posted[i].id : i \in 1..Len(posted)}

\* Messages the worker dequeued and is done dispatching, that POST /predictions
\* never accepted.
SubmissionFailed ==
    {j \in DeliveredIds :
        /\ j \notin PostedIds
        /\ ~(message.id = j /\ pc \in {"drain", "send", "clear", "post"})}

\* C12: a job whose submission failed is never acknowledged, no cancel call is
\* issued for it, and the failure takes the worker straight back to the loop
\* test of start(), from where it dequeues again unless shutdown is set.
C12_FailedSubmissionDropped ==
    \A j \in SubmissionFailed :
        /\ j \notin Acked
        /\ cancelCalls[j] = 0
        /\ message.id = j => pc = "loop" /\ caught

\* After a failed submission the worker is at its next dequeue attempt.
C12_Witness ==
    \E j \in SubmissionFailed : j \in cancel_keys /\ pc = "get" /\ ~shutdown_event

\* The worker has not touched the stream, the pipe or the model container.
NothingDone ==
    /\ next = 1
    /\ delivered = <<>>
    /\ written = <<>>
    /\ posted = <<>>
    /\ acked = <<>>
    /\ lateGets = 0

\* C13: as long as no health check has reported healthy with setup succeeded,
\* the worker has made no dequeue, pipe write or submission and is in the setup
\* loop, or, once shutdown is set, at the loop test or out of the loop; it
\* leaves the setup loop for another reason only on that report.
C13_SetupGating ==
    /\ pc = "setup" => health # "ready"
    /\ health # "ready" =>
          /\ NothingDone
          /\ pc \in {"setup", "loop", "done"}
          /\ pc # "setup" => shutdown_event

\* Shutdown arrived while the container was still setting up and the worker
\* left the loop.
C13_Witness == health = "setup_pending" /\ pc = "done" /\ NothingDone

C16_OneAckPerDequeue ==
    /\ [](\A h \in Jobs : Count(h, acked) <= 1 /\ Count(h, written) <= 1)
    /\ [](\A h \in Acked : Count(h, written) = 1 /\ h \in PostedIds)
    /\ []((pc = "loop" /\ ~caught /\ message_id \in PostedIds
              /\ message_id \notin abandoned)
            => Count(message_id, acked) = 1)
    /\ [][acked' # acked =>
            /\ delivered # <<>>
            /\ message_id = delivered[Len(delivered)].id
            /\ acked' = Append(acked, message_id)]_vars

\* A job that was never cancelled was acknowledged with shutdown not set.
C16_Witness ==
    \E h \in Acked :
        /\ h \notin cancel_keys
        /\ cancelCalls[h] = 0
        /\ ~shutdown_event
        /\ Count(h, written) = 1
        /\ Count(h, acked) = 1

\* C18: a poll cycle tests completion, then cancellation, then shutdown: a
\* wait that finds prediction_event set goes to the ack without a cancel call
\* and without abandoning the job, whatever cancel_keys and shutdown_event
\* are, and the ack follows with no cancel call in between; a wait that times
\* out goes to the cancellation test and from there to the shutdown test.
C18_CompletionFirst ==
    [][/\ (pc = "wait" /\ prediction_event /\ pc' # pc) =>
            (pc' = "ack" /\ cancelCalls' = cancelCalls /\ abandoned' = abandoned)
       /\ (pc = "ack" /\ pc' # pc) =>
            (acked' = Append(acked, message_id) /\ cancelCalls' = cancelCalls)
       /\ (pc = "wait" /\ ~prediction_event /\ pc' # pc) => pc' = "cancel"
       /\ (pc = "cancel" /\ pc' # pc) => pc' \in {"shut", "loop"}
       /\ (pc = "shut" /\ pc' # pc) => pc' \in {"wait", "loop"}]_vars

\* A job was acknowledged although, when its completion was observed, its
\* cancel key and shutdown_event were both set.
C18_Witness ==
    \E o \in observed :
        /\ o.shut
        /\ o.handle \in cancel_keys
        /\ o.handle \in Acked
        /\ cancelCalls[o.handle] = 0

\* C19: the dispatch steps come in the order drain, write, clear, submit: the
\* write is reached only from a drain loop that found nothing more to read,
\* the descriptor is written only at the send, the submission is reached only
\* from the clear, which leaves prediction_event unset, and a submission is
\* accepted only for the message whose descriptor was written last; the
\* worker unsets prediction_event nowhere but at the clear and never sets it.
C19_DispatchOrder ==
    [][/\ (pc' = "send" /\ pc # "send") => (pc = "drain" /\ pipe_in = 0)
       /\ written' # written =>
            /\ pc = "send" /\ pc' = "clear"
            /\ written' = Append(written, message.id)
            /\ pipe_out' = Append(pipe_out, message)
       /\ (pc' = "post" /\ pc # "post") =>
            (pc = "clear" /\ ~prediction_event' /\ message' = message)
       /\ posted' # posted =>
            /\ pc = "post"
            /\ written # <<>>
            /\ written[Len(written)] = message.id
            /\ posted' = Append(posted, [message EXCEPT !.webhook = WEBHOOK])
       /\ (prediction_event /\ ~prediction_event') => pc = "clear"
       /\ (~prediction_event /\ prediction_event') => UNCHANGED worker]_vars

\* A second job was submitted, after the event left set by the first job's
\* completion had been cleared.
C19_Witness ==
    /\ pc = "wait"
    /\ Len(posted) >= 2
    /\ Acked # {}
    /\ posted[Len(posted)].id = written[Len(written)]
    /\ ~prediction_event

\* C20: a get() that finds the stream empty returns to the loop test without
\* an exception and leaves prediction_event, both directions of the pipe, the
\* stream position, the model container (no submission, no cancel call) and
\* the acknowledged handles as they were.
C20_EmptyGetFrame ==
    [][(pc = "get" /\ pc' = "loop" /\ ~caught') =>
          /\ message_id' = 0
          /\ UNCHANGED <<prediction_event, pipe_in, pipe_out, written, next,
                         delivered, running, posted, cancelCalls, acked>>]_vars

\* The stream was found empty after a job had been acknowledged, with that
\* job's descriptor still unread in the pipe and prediction_event still set.
C20_Witness ==
    /\ pc = "loop"
    /\ ~caught
    /\ message_id = 0
    /\ Acked # {}
    /\ pipe_out # <<>>
    /\ prediction_event

\* C11: a job that the model container accepted and has finished is
\* eventually acknowledged, unless shutdown_event is set.
C11_CompletedEventuallyAcked ==
    \A j \in Jobs :
        (j \in PostedIds /\ j \notin running) ~> (j \in Acked \/ shutdown_event)

\* C15: once shutdown_event is set the worker eventually leaves its loop.
C15_ShutdownHonoured == shutdown_event ~> pc = "done"

\* The worker left its loop with a dispatched job that never completed and
\* whose cancel key, set all along, got it at least one cancel call.
C15_Witness ==
    /\ pc = "done"
    /\ \E h \in abandoned : h \in running /\ h \in cancel_keys /\ cancelCalls[h] >= 1

\* C17: what the blocking end receives equals what the suspension-based end
\* sent, and what the suspension-based end receives equals what the blocking
\* end sent, for every correlation id and every kind of event; nothing is left
\* on the wire afterwards.
C17_RoundTrip ==
    /\ ch_pc \in {"b_got", "b_sent", "a_got"} =>
          ch_got.blocking = ch_item /\ ch_to_blocking = <<>>
    /\ ch_pc = "a_got" =>
          ch_got.async = ch_item /\ ch_to_async = <<>> /\ ch_buf = <<>>

\* A PredictionOutput message made both trips, the second one read in pieces.
C17_Witness ==
    /\ ch_pc = "a_got"
    /\ ch_item[2].tag = "PredictionOutput"
    /\ ch_got.async = ch_item
    /\ ch_got.blocking = ch_item
====
